---- MODULE Spec2Model ----
(***************************************************************************)
(* Model of seo.py: Document (keyword extraction), InvertedIndex (index    *)
(* and lookup cache, both holding references to Python set objects) and    *)
(* PriorityQueue (heapq over (-score, doc_id) tuples).                     *)
(*                                                                         *)
(* A Python str is a sequence of one-character strings.  An optional       *)
(* value (a keyword argument, a file's content) is Str(s) or None.  A      *)
(* Python set object lives in objs and is named by its position there, so  *)
(* that two references to one set (index and cache) see each other's       *)
(* mutations.                                                              *)
(***************************************************************************)
EXTENDS Integers, Sequences, FiniteSets, Bags, TLC

VARIABLES
    files,      \* content_ref of document d -> Str(text) or None (unreadable)
    objs,       \* the set objects allocated so far: Seq(SUBSET ids)
    index,      \* InvertedIndex.index: keyword -> position in objs
    cache,      \* InvertedIndex.cache: query argument -> position in objs
    ret,        \* outcome of the last completed call
    added,      \* ids of the documents whose add_document has completed
    stamp,      \* query argument -> value of added when its cache entry was computed
    pc,         \* per worker thread: position inside add_document
    todo,       \* per worker thread: keywords the for loop has not visited yet
    cur,        \* per worker thread: the loop variable keyword
    ref,        \* per worker thread: the set object loaded by self.index[keyword]
    heap,       \* PriorityQueue.heap: Seq(<<-score, doc_id>>)
    pqret,      \* outcome of the last completed PriorityQueue call
    inserted,   \* bag of the (doc_id, score) pairs passed to insert
    extracted,  \* bag of the (doc_id, score) pairs returned by extract_max
    lpc,        \* the thread calling get_documents: its position in the call
    lkw,        \* the thread calling get_documents: the argument keyword
    lres,       \* the thread calling get_documents: the local variable result
    lconc,      \* documents whose add_document overlapped the running lookup
    conc,       \* query argument -> lconc of the lookup that wrote its cache entry
    mpc,        \* position of the main program, lines 99-156
    out         \* the values the main program has printed

idxVars == <<files, objs, index, cache, ret, added, stamp>>
thrVars == <<pc, todo, cur, ref>>
pqVars == <<heap, pqret, inserted, extracted>>
lkVars == <<lpc, lkw, lres, lconc, conc>>
mainVars == <<mpc, out>>
vars == <<files, objs, index, cache, ret, added, stamp, pc, todo, cur, ref,
          heap, pqret, inserted, extracted, lpc, lkw, lres, lconc, conc,
          mpc, out>>

----------------------------------------------------------------------------
(* Bounds *)

MaxDocs == 2
MaxScore == 1
MaxInserts == 4
MaxLen == 4

DocIds == 1..MaxDocs
Threads == DocIds

----------------------------------------------------------------------------
(* Values *)

None == [none |-> TRUE]
Str(s) == [str |-> s]

UpperChars == <<"A", "B", "C", "D", "E", "F", "G", "H", "I", "J", "K", "L", "M",
                "N", "O", "P", "Q", "R", "S", "T", "U", "V", "W", "X", "Y", "Z">>
LowerChars == <<"a", "b", "c", "d", "e", "f", "g", "h", "i", "j", "k", "l", "m",
                "n", "o", "p", "q", "r", "s", "t", "u", "v", "w", "x", "y", "z">>
DigitChars == {"0", "1", "2", "3", "4", "5", "6", "7", "8", "9"}
\* the ASCII characters that \s matches and str.split() cuts at: space, tab,
\* line feed, vertical tab, form feed, carriage return and the separators
\* 0x1c to 0x1f (texts are ASCII here)
SpaceChars == {" ", "\t", "\n", "", "\f", "\r", "", "", "", ""}

\* str.lower(), one character
lower_char(c) ==
    IF \E i \in 1..Len(UpperChars) : UpperChars[i] = c
    THEN LowerChars[CHOOSE i \in 1..Len(UpperChars) : UpperChars[i] = c]
    ELSE c

\* str.lower()
lower(s) == [i \in 1..Len(s) |-> lower_char(s[i])]

\* the regular expression class \w: alphanumeric or underscore
is_word_char(c) ==
    \/ \E i \in 1..Len(UpperChars) : UpperChars[i] = c \/ LowerChars[i] = c
    \/ c \in DigitChars
    \/ c = "_"

\* the regular expression class \s
is_space_char(c) == c \in SpaceChars

\* re.sub(r'[^\w\s]', '', s)
re_sub(s) == SelectSeq(s, LAMBDA c : is_word_char(c) \/ is_space_char(c))

RECURSIVE split_from(_, _, _, _)
split_from(s, i, word, acc) ==
    IF i > Len(s)
    THEN IF word # <<>> THEN Append(acc, word) ELSE acc
    ELSE IF is_space_char(s[i])
         THEN split_from(s, i + 1, <<>>,
                         IF word # <<>> THEN Append(acc, word) ELSE acc)
         ELSE split_from(s, i + 1, Append(word, s[i]), acc)

\* a split that cuts at every single space and nowhere else, as s.split(" ")
\* does: it yields empty words
split_single(s) ==
    LET RECURSIVE cut(_, _, _)
        cut(i, word, acc) ==
            IF i > Len(s)
            THEN Append(acc, word)
            ELSE IF s[i] = " "
                 THEN cut(i + 1, <<>>, Append(acc, word))
                 ELSE cut(i + 1, Append(word, s[i]), acc)
    IN  cut(1, <<>>, <<>>)

\* str.split(): the words between runs of whitespace, none of them empty
split(s) == split_from(s, 1, <<>>, <<>>)

Range(f) == {f[i] : i \in DOMAIN f}

\* Document.read_content
read_content(d) == files[d]

\* an extract_keywords without the check of line 37, which turns the content
\* into text with str(content): an unreadable file yields the word "none"
extract_keywords_unchecked(d) ==
    LET content == read_content(d)
        text == IF content = None THEN <<"N", "o", "n", "e">> ELSE content.str
    IN  Range(split(re_sub(lower(text))))

\* Document.extract_keywords
extract_keywords(d) ==
    LET content == read_content(d) IN
    IF content = None
    THEN {}
    ELSE LET content_lower == lower(content.str)
             words == split(re_sub(content_lower))
         IN  Range(words)

----------------------------------------------------------------------------
(* InvertedIndex *)

\* line 57: keyword not in self.index
keyword_not_in_index_always(ix, keyword) == TRUE

keyword_not_in_index(ix, keyword) == keyword \notin DOMAIN ix

\* set(): a new, empty set object; its reference is Len of the result
new_set(os) == Append(os, {})

\* line 58: self.index[keyword] = <reference o>
index_setitem(ix, keyword, o) == (keyword :> o) @@ ix

\* line 59, first half: self.index[keyword]
index_getitem(ix, keyword) == ix[keyword]

\* an add that reaches every set object, as when all keywords were given one
\* shared set
set_add_shared(os, o, doc_id) == [i \in DOMAIN os |-> os[i] \cup {doc_id}]

\* line 59, second half: <set object o>.add(doc_id)
set_add(os, o, doc_id) == [os EXCEPT ![o] = @ \cup {doc_id}]

\* lines 57-59: one iteration of the for loop, run without interruption
add_keyword(st, doc_id, keyword) ==
    LET fresh == keyword_not_in_index(st.index, keyword)
        os1 == IF fresh THEN new_set(st.objs) ELSE st.objs
        ix1 == IF fresh THEN index_setitem(st.index, keyword, Len(os1))
                        ELSE st.index
    IN  [objs |-> set_add(os1, index_getitem(ix1, keyword), doc_id),
         index |-> ix1]

\* lines 56-59: the for loop over the keyword set.  The iteration order of a
\* Python set is not specified; the resulting mapping does not depend on it
\* (only the numbering of the new set objects does), so one order is taken.
RECURSIVE add_keywords(_, _, _)
add_keywords(st, doc_id, keywords) ==
    IF keywords = {}
    THEN st
    ELSE LET keyword == CHOOSE k \in keywords : TRUE
         IN  add_keywords(add_keyword(st, doc_id, keyword), doc_id,
                          keywords \ {keyword})

\* InvertedIndex.add_document, run without interruption
add_document(os, ix, d) ==
    add_keywords([objs |-> os, index |-> ix], d, extract_keywords(d))

\* What the last call did: op is the method, doc or keyword its argument, kind
\* is "set" (a set was returned, obj is the reference returned), "none" (None
\* was returned) or "raise"; hit tells a cache hit, and repeat tells that the
\* document of an add_document had been added before.
Outcome(op, d, keyword, kind, o, hit) ==
    [op |-> op, doc |-> d, keyword |-> keyword, kind |-> kind, obj |-> o,
     hit |-> hit, repeat |-> FALSE]

\* a get_documents that stores the cache entry before it normalises the keyword
get_documents_store_first(os, ix, c, keyword) ==
    IF keyword \in DOMAIN c
    THEN [objs |-> os, index |-> ix, cache |-> c,
          ret |-> Outcome("get_documents", 0, keyword, "set", c[keyword], TRUE)]
    ELSE IF keyword = None
    THEN [objs |-> new_set(os), index |-> ix,
          cache |-> (keyword :> Len(os) + 1) @@ c,
          ret |-> Outcome("get_documents", 0, keyword, "raise", 0, FALSE)]
    ELSE LET key == lower(keyword.str)
             os1 == IF key \in DOMAIN ix THEN os ELSE new_set(os)
             result == IF key \in DOMAIN ix THEN ix[key] ELSE Len(os1)
         IN  [objs |-> os1, index |-> ix, cache |-> (keyword :> result) @@ c,
              ret |-> Outcome("get_documents", 0, keyword, "set", result, FALSE)]

\* a get_documents that reads the index with setdefault: an absent key is
\* created in the index
get_documents_setdefault(os, ix, c, keyword) ==
    IF keyword \in DOMAIN c
    THEN [objs |-> os, index |-> ix, cache |-> c,
          ret |-> Outcome("get_documents", 0, keyword, "set", c[keyword], TRUE)]
    ELSE IF keyword = None
    THEN [objs |-> os, index |-> ix, cache |-> c,
          ret |-> Outcome("get_documents", 0, keyword, "raise", 0, FALSE)]
    ELSE LET key == lower(keyword.str)
             os1 == IF key \in DOMAIN ix THEN os ELSE new_set(os)
             ix1 == IF key \in DOMAIN ix THEN ix ELSE index_setitem(ix, key, Len(os1))
         IN  [objs |-> os1, index |-> ix1, cache |-> (keyword :> ix1[key]) @@ c,
              ret |-> Outcome("get_documents", 0, keyword, "set", ix1[key], FALSE)]

\* a get_documents that keys the cache by the normalised keyword
get_documents_lower_key(os, ix, c, keyword) ==
    IF keyword = None
    THEN [objs |-> os, index |-> ix, cache |-> c,
          ret |-> Outcome("get_documents", 0, keyword, "raise", 0, FALSE)]
    ELSE LET key == lower(keyword.str) IN
         IF Str(key) \in DOMAIN c
         THEN [objs |-> os, index |-> ix, cache |-> c,
               ret |-> Outcome("get_documents", 0, keyword, "set", c[Str(key)], TRUE)]
         ELSE LET os1 == IF key \in DOMAIN ix THEN os ELSE new_set(os)
                  result == IF key \in DOMAIN ix THEN ix[key] ELSE Len(os1)
              IN  [objs |-> os1, index |-> ix, cache |-> (Str(key) :> result) @@ c,
                   ret |-> Outcome("get_documents", 0, keyword, "set", result, FALSE)]

\* a get_documents that caches and returns a copy of the set found
get_documents_copy(os, ix, c, keyword) ==
    IF keyword \in DOMAIN c
    THEN [objs |-> os, index |-> ix, cache |-> c,
          ret |-> Outcome("get_documents", 0, keyword, "set", c[keyword], TRUE)]
    ELSE IF keyword = None
    THEN [objs |-> os, index |-> ix, cache |-> c,
          ret |-> Outcome("get_documents", 0, keyword, "raise", 0, FALSE)]
    ELSE LET key == lower(keyword.str)
             found == IF key \in DOMAIN ix THEN os[ix[key]] ELSE {}
             os1 == Append(os, found)
         IN  [objs |-> os1, index |-> ix, cache |-> (keyword :> Len(os1)) @@ c,
              ret |-> Outcome("get_documents", 0, keyword, "set", Len(os1), FALSE)]

\* InvertedIndex.get_documents.  The value returned is a reference: ret.obj.
\* None has no method lower, so line 67 raises AttributeError before line 68.
get_documents(os, ix, c, keyword) ==
    IF keyword \in DOMAIN c
    THEN [objs |-> os, index |-> ix, cache |-> c,
          ret |-> Outcome("get_documents", 0, keyword, "set", c[keyword], TRUE)]
    ELSE IF keyword = None
    THEN [objs |-> os, index |-> ix, cache |-> c,
          ret |-> Outcome("get_documents", 0, keyword, "raise", 0, FALSE)]
    ELSE LET key == lower(keyword.str)
             os1 == IF key \in DOMAIN ix THEN os ELSE new_set(os)
             result == IF key \in DOMAIN ix THEN ix[key] ELSE Len(os1)
         IN  [objs |-> os1, index |-> ix, cache |-> (keyword :> result) @@ c,
              ret |-> Outcome("get_documents", 0, keyword, "set", result, FALSE)]

----------------------------------------------------------------------------
(* PriorityQueue.  The list self.heap is a sequence; the list position p of  *)
(* heapq (from 0) is the sequence position p + 1.                            *)

\* a < b on the tuples (-score, doc_id): Python compares them item by item
tuple_lt(a, b) == a[1] < b[1] \/ (a[1] = b[1] /\ a[2] < b[2])

\* heapq._siftdown: the loop, with newitem taken out of heap[pos]
RECURSIVE siftdown_loop(_, _, _, _)
siftdown_loop(h, startpos, pos, newitem) ==
    IF pos > startpos
    THEN LET parentpos == (pos - 1) \div 2
             parent == h[parentpos + 1]
         IN  IF tuple_lt(newitem, parent)
             THEN siftdown_loop([h EXCEPT ![pos + 1] = parent], startpos,
                                parentpos, newitem)
             ELSE [h EXCEPT ![pos + 1] = newitem]
    ELSE [h EXCEPT ![pos + 1] = newitem]

\* heapq._siftdown(heap, startpos, pos)
siftdown(h, startpos, pos) == siftdown_loop(h, startpos, pos, h[pos + 1])

\* heapq._siftup: the loop that moves the smaller child up until a leaf is
\* reached, followed by the _siftdown that puts newitem in its place
RECURSIVE siftup_loop(_, _, _, _)
siftup_loop(h, startpos, pos, newitem) ==
    LET endpos == Len(h)
        leftpos == 2 * pos + 1
        rightpos == leftpos + 1
        childpos == IF rightpos < endpos
                       /\ ~tuple_lt(h[leftpos + 1], h[rightpos + 1])
                    THEN rightpos ELSE leftpos
    IN  IF leftpos < endpos
        THEN siftup_loop([h EXCEPT ![pos + 1] = h[childpos + 1]], startpos,
                         childpos, newitem)
        ELSE siftdown([h EXCEPT ![pos + 1] = newitem], startpos, pos)

\* heapq._siftup(heap, pos)
siftup(h, pos) == siftup_loop(h, pos, pos, h[pos + 1])

\* a push that appends the item and leaves it where it is
heappush_append_only(h, item) == Append(h, item)

\* heapq.heappush(heap, item)
heappush(h, item) == siftdown(Append(h, item), 0, Len(h))

\* a pop that moves the last item to the front and leaves it there
heappop_no_sift(h) ==
    LET lastelt == h[Len(h)]
        rest == SubSeq(h, 1, Len(h) - 1)
    IN  IF rest # <<>>
        THEN [item |-> h[1], heap |-> [rest EXCEPT ![1] = lastelt]]
        ELSE [item |-> lastelt, heap |-> rest]

\* heapq.heappop(heap) on a list that is not empty: the item returned and
\* the list left
heappop(h) ==
    LET lastelt == h[Len(h)]
        rest == SubSeq(h, 1, Len(h) - 1)
    IN  IF rest # <<>>
        THEN [item |-> h[1], heap |-> siftup([rest EXCEPT ![1] = lastelt], 0)]
        ELSE [item |-> lastelt, heap |-> rest]

\* PriorityQueue.insert(item), item = (doc_id, score)
insert(h, item) == heappush(h, <<-item[2], item[1]>>)

\* an extract_max that answers an empty queue with the pair (0, 0)
extract_max_zero_pair(h) ==
    IF h = <<>>
    THEN [kind |-> "pair", pair |-> <<0, 0>>, heap |-> h]
    ELSE LET r == heappop(h)
         IN  [kind |-> "pair", pair |-> <<r.item[2], -r.item[1]>>,
              heap |-> r.heap]

\* an extract_max that returns the stored score without negating it back
extract_max_stored_score(h) ==
    IF h = <<>>
    THEN [kind |-> "none", pair |-> <<0, 0>>, heap |-> h]
    ELSE LET max_item == heappop(h)
         IN  [kind |-> "pair", pair |-> <<max_item.item[2], max_item.item[1]>>,
              heap |-> max_item.heap]

\* PriorityQueue.extract_max(): kind "none" is the return value None, pair is
\* the (doc_id, score) returned otherwise
extract_max(h) ==
    IF h = <<>>
    THEN [kind |-> "none", pair |-> <<0, 0>>, heap |-> h]
    ELSE LET max_item == heappop(h)
         IN  [kind |-> "pair", pair |-> <<max_item.item[2], -max_item.item[1]>>,
              heap |-> max_item.heap]

\* PriorityQueue.is_empty()
is_empty(h) == Len(h) = 0

----------------------------------------------------------------------------
(* Inputs *)

\* contents a document's file may have; None is a file that cannot be read
Contents ==
    { Str(<<"S", "E", "O", " ", "a", ".">>),
      Str(<<" ", "s", "e", "o", "\t", " ", "b", "_", "\n">>),
      None }

\* arguments passed to get_documents
Keywords ==
    { Str(<<"s", "e", "o">>), Str(<<"S", "E", "O">>), Str(<<>>),
      None }

\* scores passed to insert: any number, negative ones included
Scores == (-1)..MaxScore

\* the (doc_id, score) pairs passed to insert
Pairs == DocIds \X Scores

NoOutcome == Outcome("init", 0, None, "none", 0, FALSE)

\* InvertedIndex() and PriorityQueue() have been constructed
Objects ==
    /\ objs = <<>>
    /\ index = <<>>
    /\ cache = <<>>
    /\ ret = NoOutcome
    /\ added = {}
    /\ stamp = <<>>
    /\ heap = <<>>
    /\ pqret = [op |-> "init", kind |-> "none", pair |-> <<0, 0>>]
    /\ inserted = EmptyBag
    /\ extracted = EmptyBag
    /\ lpc = "idle"
    /\ lkw = None
    /\ lres = 0
    /\ lconc = {}
    /\ conc = <<>>
    /\ out = <<>>

\* the state after construction, no thread started, for documents 1..MaxDocs
Constructed ==
    /\ Objects
    /\ pc = [t \in Threads |-> "idle"]
    /\ todo = [t \in Threads |-> {}]
    /\ cur = [t \in Threads |-> <<>>]
    /\ ref = [t \in Threads |-> 0]
    /\ mpc = <<"none", 0>>

\* the files hold any of the contents
Init ==
    /\ files \in [DocIds -> Contents]
    /\ Constructed

\* the ranking queue reads no file
InitPQ ==
    /\ files = [d \in DocIds |-> None]
    /\ Constructed

----------------------------------------------------------------------------
(* Sequential use of the index: each call runs to completion *)

\* index.add_document(Document(d, ...)), lines 112-114
AddDocument(d) ==
    LET st == add_document(objs, index, d) IN
    /\ objs' = st.objs
    /\ index' = st.index
    /\ added' = added \cup {d}
    /\ ret' = [Outcome("add_document", d, None, "none", 0, FALSE)
                  EXCEPT !.repeat = d \in added]
    /\ UNCHANGED <<files, cache, stamp, thrVars, pqVars,
                   lkVars, mainVars>>

\* index.get_documents(keyword), lines 133 and 144
GetDocuments(keyword) ==
    LET r == get_documents(objs, index, cache, keyword) IN
    /\ objs' = r.objs
    /\ index' = r.index
    /\ cache' = r.cache
    /\ ret' = r.ret
    /\ stamp' = IF r.ret.kind = "set" /\ ~r.ret.hit
                THEN (keyword :> added) @@ stamp
                ELSE stamp
    /\ UNCHANGED <<files, added, thrVars, pqVars, lkVars, mainVars>>

Next ==
    \/ \E d \in DocIds : AddDocument(d)
    \/ \E keyword \in Keywords : GetDocuments(keyword)

Spec == Init /\ [][Next]_vars

----------------------------------------------------------------------------
(* Concurrent ingestion: one worker thread per document, lines 119-127.     *)
(* Thread t runs add_document_in_parallel for document t; a thread switch   *)
(* can fall between any two accesses to the shared index.                   *)

\* lines 95-96 and 55: the Document is built and its keywords extracted
ThreadStart(t) ==
    /\ pc[t] = "idle"
    /\ todo' = [todo EXCEPT ![t] = extract_keywords(t)]
    /\ pc' = [pc EXCEPT ![t] = "for"]
    /\ lconc' = IF lpc = "idle" THEN lconc ELSE lconc \cup {t}
    /\ UNCHANGED <<idxVars, cur, ref, pqVars, lpc, lkw, lres, conc, mainVars>>

\* line 56: the for loop takes the next keyword, in the set's iteration
\* order, which is not specified; at the end add_document returns
ThreadFor(t) ==
    /\ pc[t] = "for"
    /\ IF todo[t] = {}
       THEN /\ pc' = [pc EXCEPT ![t] = "done"]
            /\ added' = added \cup {t}
            /\ UNCHANGED <<todo, cur>>
       ELSE /\ \E keyword \in todo[t] :
                  /\ cur' = [cur EXCEPT ![t] = keyword]
                  /\ todo' = [todo EXCEPT ![t] = @ \ {keyword}]
            /\ pc' = [pc EXCEPT ![t] = "check"]
            /\ UNCHANGED added
    /\ UNCHANGED <<files, objs, index, cache, ret, stamp, ref, pqVars,
                   lkVars, mainVars>>

\* line 57: if keyword not in self.index
ThreadCheck(t) ==
    /\ pc[t] = "check"
    /\ pc' = [pc EXCEPT ![t] = IF keyword_not_in_index(index, cur[t])
                                THEN "create" ELSE "load"]
    /\ UNCHANGED <<idxVars, todo, cur, ref, pqVars,
                   lkVars, mainVars>>

\* line 58: self.index[keyword] = set()
ThreadCreate(t) ==
    /\ pc[t] = "create"
    /\ objs' = new_set(objs)
    /\ index' = index_setitem(index, cur[t], Len(objs'))
    /\ pc' = [pc EXCEPT ![t] = "load"]
    /\ UNCHANGED <<files, cache, ret, added, stamp, todo, cur, ref, pqVars,
                   lkVars, mainVars>>

\* line 59, first half: self.index[keyword]
ThreadLoad(t) ==
    /\ pc[t] = "load"
    /\ ref' = [ref EXCEPT ![t] = index_getitem(index, cur[t])]
    /\ pc' = [pc EXCEPT ![t] = "add"]
    /\ UNCHANGED <<idxVars, todo, cur, pqVars, lkVars, mainVars>>

\* line 59, second half: .add(document.doc_id); the reference loaded was a
\* temporary of the statement and is dropped
ThreadAdd(t) ==
    /\ pc[t] = "add"
    /\ objs' = set_add(objs, ref[t], t)
    /\ ref' = [ref EXCEPT ![t] = 0]
    /\ pc' = [pc EXCEPT ![t] = "for"]
    /\ UNCHANGED <<files, index, cache, ret, added, stamp, todo, cur,
                   pqVars, lkVars, mainVars>>

NextConc ==
    \E t \in Threads :
        \/ ThreadStart(t)
        \/ ThreadFor(t)
        \/ ThreadCheck(t)
        \/ ThreadCreate(t)
        \/ ThreadLoad(t)
        \/ ThreadAdd(t)

SpecConc == Init /\ [][NextConc]_vars

----------------------------------------------------------------------------
(* A thread that calls get_documents while the worker threads run: a thread  *)
(* switch can fall between the cache check (line 63), the index read (line   *)
(* 67) and the cache write (line 68).                                        *)

\* the worker threads that are inside add_document: a task that is not yet
\* submitted, has not started or has returned is not
InProgress ==
    {t \in DOMAIN pc : pc[t] \in {"for", "check", "create", "load", "add"}}

\* index.get_documents(keyword) is called
LookupCall(keyword) ==
    /\ lpc = "idle"
    /\ lpc' = "check"
    /\ lkw' = keyword
    /\ lconc' = InProgress
    /\ UNCHANGED <<idxVars, thrVars, pqVars, lres, conc, mainVars>>

\* lines 63-65: if keyword in self.cache: return self.cache[keyword]
LookupCheck ==
    /\ lpc = "check"
    /\ IF lkw \in DOMAIN cache
       THEN /\ ret' = Outcome("get_documents", 0, lkw, "set", cache[lkw], TRUE)
            /\ lpc' = "idle"
       ELSE /\ lpc' = "read"
            /\ UNCHANGED ret
    /\ UNCHANGED <<files, objs, index, cache, added, stamp, thrVars, pqVars,
                   lkw, lres, lconc, conc, mainVars>>

\* line 67: result = self.index.get(keyword.lower(), set()); a None keyword
\* raises AttributeError here
LookupRead ==
    /\ lpc = "read"
    /\ IF lkw = None
       THEN /\ ret' = Outcome("get_documents", 0, lkw, "raise", 0, FALSE)
            /\ lpc' = "idle"
            /\ UNCHANGED <<objs, lres>>
       ELSE LET key == lower(lkw.str) IN
            /\ objs' = IF key \in DOMAIN index THEN objs ELSE new_set(objs)
            /\ lres' = IF key \in DOMAIN index THEN index[key] ELSE Len(objs')
            /\ lpc' = "write"
            /\ UNCHANGED ret
    /\ UNCHANGED <<files, index, cache, added, stamp, thrVars, pqVars, lkw,
                   lconc, conc, mainVars>>

\* lines 68-69: self.cache[keyword] = result; return result
LookupWrite ==
    /\ lpc = "write"
    /\ cache' = (lkw :> lres) @@ cache
    /\ ret' = Outcome("get_documents", 0, lkw, "set", lres, FALSE)
    /\ stamp' = (lkw :> added) @@ stamp
    /\ conc' = (lkw :> lconc) @@ conc
    /\ lpc' = "idle"
    /\ UNCHANGED <<files, objs, index, added, thrVars, pqVars, lkw, lres,
                   lconc, mainVars>>

NextPar ==
    \/ \E t \in Threads :
           \/ ThreadStart(t)
           \/ ThreadFor(t)
           \/ ThreadCheck(t)
           \/ ThreadCreate(t)
           \/ ThreadLoad(t)
           \/ ThreadAdd(t)
    \/ \E keyword \in Keywords : LookupCall(keyword)
    \/ LookupCheck
    \/ LookupRead
    \/ LookupWrite

\* contents of the files while lookups run beside the worker threads
ParContents == {Str(<<"S", "E", "O", ".">>), None}

InitPar ==
    /\ files \in [DocIds -> ParContents]
    /\ Constructed

SpecPar == InitPar /\ [][NextPar]_vars

\* the same threads on documents that share one keyword and differ in
\* another, with lookups of the keyword that only one of the texts has
InterContents ==
    {Str(<<"S", "E", "O", " ", "a">>), Str(<<"s", "e", "o">>), None}

InterKeywords == {Str(<<"a">>)}

InitInter ==
    /\ files \in [DocIds -> InterContents]
    /\ Constructed

NextInter ==
    \/ \E t \in Threads :
           \/ ThreadStart(t)
           \/ ThreadFor(t)
           \/ ThreadCheck(t)
           \/ ThreadCreate(t)
           \/ ThreadLoad(t)
           \/ ThreadAdd(t)
    \/ \E keyword \in InterKeywords : LookupCall(keyword)
    \/ LookupCheck
    \/ LookupRead
    \/ LookupWrite

SpecInter == InitInter /\ [][NextInter]_vars

----------------------------------------------------------------------------
(* Keyword extraction alone: line 55 on files holding any short text *)

\* letters of both cases, a digit, underscore, punctuation and whitespace
TextChars == {"a", "B", "1", "_", ".", " ", "\t", "\f"}

\* the texts of at most MaxLen characters
Texts == UNION {[1..n -> TextChars] : n \in 0..MaxLen}

\* every file holds the same text, or none can be read
InitText ==
    /\ \E content \in {Str(text) : text \in Texts} \cup {None} :
           files = [d \in DocIds |-> content]
    /\ Constructed

NextText == \E t \in Threads : ThreadStart(t)

SpecText == InitText /\ [][NextText]_vars

----------------------------------------------------------------------------
(* A caller that modifies the set get_documents returned to it *)

\* found_docs.add(x) on the reference returned at line 69 or line 65
CallerAdd(x) ==
    /\ ret.kind = "set"
    /\ objs' = set_add(objs, ret.obj, x)
    /\ ret' = [ret EXCEPT !.op = "caller_mutation"]
    /\ UNCHANGED <<files, index, cache, added, stamp, thrVars, pqVars,
                   lkVars, mainVars>>

\* found_docs.discard(x) on the reference returned at line 69 or line 65
CallerDiscard(x) ==
    /\ ret.kind = "set"
    /\ objs' = [objs EXCEPT ![ret.obj] = @ \ {x}]
    /\ ret' = [ret EXCEPT !.op = "caller_mutation"]
    /\ UNCHANGED <<files, index, cache, added, stamp, thrVars, pqVars,
                   lkVars, mainVars>>

NextMut ==
    \/ \E d \in DocIds : AddDocument(d)
    \/ \E keyword \in Keywords : GetDocuments(keyword)
    \/ \E x \in DocIds : CallerAdd(x)
    \/ \E x \in DocIds : CallerDiscard(x)

SpecMut == Init /\ [][NextMut]_vars

----------------------------------------------------------------------------
(* Use of the ranking queue, lines 148-156 *)

\* priority_queue.insert(item)
Insert(item) ==
    /\ BagCardinality(inserted) < MaxInserts
    /\ heap' = insert(heap, item)
    /\ pqret' = [op |-> "insert", kind |-> "none", pair |-> item]
    /\ inserted' = inserted (+) SetToBag({item})
    /\ UNCHANGED <<idxVars, thrVars, extracted, lkVars, mainVars>>

\* priority_queue.extract_max()
ExtractMax ==
    LET r == extract_max(heap) IN
    /\ heap' = r.heap
    /\ pqret' = [op |-> "extract_max", kind |-> r.kind, pair |-> r.pair]
    /\ extracted' = IF r.kind = "pair"
                    THEN extracted (+) SetToBag({r.pair})
                    ELSE extracted
    /\ UNCHANGED <<idxVars, thrVars, inserted, lkVars, mainVars>>

NextPQ ==
    \/ \E item \in Pairs : Insert(item)
    \/ ExtractMax

SpecPQ == InitPQ /\ [][NextPQ]_vars

----------------------------------------------------------------------------
(* The main program, lines 99-156.  mpc is <<phase, i>>: the phase and the    *)
(* position in the list the phase walks through.                              *)

\* the contents of doc1.txt, doc2.txt and doc3.txt
MainDocuments ==
    << Str(<<"S", "E", "O", " ", "i", "s", " ", "i", "m", "p", "o", "r", "t",
             "a", "n", "t", " ", "f", "o", "r", " ", "w", "e", "b", "s", "i",
             "t", "e", "s", ".">>),
       Str(<<"A", "d", "v", "a", "n", "c", "e", "d", " ", "S", "E", "O", " ",
             "t", "e", "c", "h", "n", "i", "q", "u", "e", "s", " ", "i", "m",
             "p", "r", "o", "v", "e", " ", "v", "i", "s", "i", "b", "i", "l",
             "i", "t", "y", ".">>),
       Str(<<"S", "E", "O", " ", "t", "i", "p", "s", " ", "h", "e", "l", "p",
             " ", "i", "n", " ", "o", "p", "t", "i", "m", "i", "z", "i", "n",
             "g", " ", "c", "o", "n", "t", "e", "n", "t", ".">>) >>

\* lines 149-151: the (doc_id, score) pairs inserted, scores in hundredths
MainPairs == << <<1, 95>>, <<2, 85>>, <<3, 80>> >>

MainDocIds == DOMAIN MainDocuments

\* each of the three files holds its text or is missing (read_content then
\* returns None, lines 27-32)
InitMain ==
    /\ files \in [MainDocIds -> Range(MainDocuments) \cup {None}]
    /\ \A d \in MainDocIds : files[d] \in {MainDocuments[d], None}
    /\ Objects
    /\ pc = [t \in MainDocIds |-> "unsubmitted"]
    /\ todo = [t \in MainDocIds |-> {}]
    /\ cur = [t \in MainDocIds |-> <<>>]
    /\ ref = [t \in MainDocIds |-> 0]
    /\ mpc = <<"add", 1>>

\* lines 112-114: the sequential insertion
MainAdd ==
    LET d == mpc[2]
        st == add_document(objs, index, d)
    IN  /\ mpc[1] = "add"
        /\ objs' = st.objs
        /\ index' = st.index
        /\ added' = added \cup {d}
        /\ ret' = [Outcome("add_document", d, None, "none", 0, FALSE)
                      EXCEPT !.repeat = d \in added]
        /\ mpc' = IF d < Len(MainDocuments) THEN <<"add", d + 1>>
                                            ELSE <<"submit", 1>>
        /\ UNCHANGED <<files, cache, stamp, thrVars, pqVars, lkVars, out>>

\* lines 121-123: executor.submit(add_document_in_parallel, ...)
MainSubmit ==
    LET d == mpc[2] IN
    /\ mpc[1] = "submit"
    /\ pc' = [pc EXCEPT ![d] = "idle"]
    /\ mpc' = IF d < Len(MainDocuments) THEN <<"submit", d + 1>>
                                        ELSE <<"join", 1>>
    /\ UNCHANGED <<idxVars, todo, cur, ref, pqVars, lkVars, out>>

\* lines 126-127: future.result() for every future
MainJoin ==
    LET d == mpc[2] IN
    /\ mpc[1] = "join"
    /\ pc[d] = "done"
    /\ mpc' = IF d < Len(MainDocuments) THEN <<"join", d + 1>>
                                        ELSE <<"search", 1>>
    /\ UNCHANGED <<idxVars, thrVars, pqVars, lkVars, out>>

\* lines 131-145: index.get_documents("seo"), twice; the cache line and the
\* documents found are printed
MainSearch ==
    LET keyword == Str(<<"s", "e", "o">>)
        r == get_documents(objs, index, cache, keyword)
    IN  /\ mpc[1] = "search"
        /\ objs' = r.objs
        /\ index' = r.index
        /\ cache' = r.cache
        /\ ret' = r.ret
        /\ stamp' = IF r.ret.hit THEN stamp ELSE (keyword :> added) @@ stamp
        /\ out' = Append(out, [hit |-> r.ret.hit, docs |-> r.objs[r.ret.obj]])
        /\ mpc' = IF mpc[2] = 1 THEN <<"search", 2>> ELSE <<"insert", 1>>
        /\ UNCHANGED <<files, added, thrVars, pqVars, lkVars>>

\* lines 148-151: priority_queue.insert((doc_id, score))
MainInsert ==
    LET item == MainPairs[mpc[2]] IN
    /\ mpc[1] = "insert"
    /\ heap' = insert(heap, item)
    /\ pqret' = [op |-> "insert", kind |-> "none", pair |-> item]
    /\ inserted' = inserted (+) SetToBag({item})
    /\ mpc' = IF mpc[2] < Len(MainPairs) THEN <<"insert", mpc[2] + 1>>
                                         ELSE <<"drain", 1>>
    /\ UNCHANGED <<idxVars, thrVars, extracted, lkVars, out>>

\* lines 154-156: while not is_empty(): print(extract_max())
MainDrain ==
    LET r == extract_max(heap) IN
    /\ mpc[1] = "drain"
    /\ IF is_empty(heap)
       THEN /\ mpc' = <<"done", 1>>
            /\ UNCHANGED <<pqVars, out>>
       ELSE /\ heap' = r.heap
            /\ pqret' = [op |-> "extract_max", kind |-> r.kind, pair |-> r.pair]
            /\ extracted' = IF r.kind = "pair"
                            THEN extracted (+) SetToBag({r.pair})
                            ELSE extracted
            /\ out' = Append(out, r.pair)
            /\ UNCHANGED <<inserted, mpc>>
    /\ UNCHANGED <<idxVars, thrVars, lkVars>>

\* the main thread's steps and, for every task submitted, the steps of the
\* worker that runs it: the workers run at once, and a thread switch can fall
\* between any two of their statements and of the main thread's
NextMain ==
    \/ MainAdd
    \/ MainSubmit
    \/ \E t \in MainDocIds :
           \/ ThreadStart(t)
           \/ ThreadFor(t)
           \/ ThreadCheck(t)
           \/ ThreadCreate(t)
           \/ ThreadLoad(t)
           \/ ThreadAdd(t)
    \/ MainJoin
    \/ MainSearch
    \/ MainInsert
    \/ MainDrain

SpecMain == InitMain /\ [][NextMain]_vars

----------------------------------------------------------------------------
(* State functions the properties are stated with *)

\* the (doc_id, score) pairs in the queue, read off the list
Queued == {<<heap[i][2], -heap[i][1]>> : i \in 1..Len(heap)}

\* p is extracted no later than q: higher score, or equal score and an id
\* that is not larger
Before(p, q) == p[2] > q[2] \/ (p[2] = q[2] /\ p[1] <= q[1])

\* the index as a mapping keyword -> set of document ids
IndexMap == [k \in DOMAIN index |-> objs[index[k]]]

\* what get_documents(keyword) returns when called in the current state
LookupResult(keyword) ==
    LET r == get_documents(objs, index, cache, keyword) IN
    [kind |-> r.ret.kind,
     value |-> IF r.ret.kind = "set" THEN r.objs[r.ret.obj] ELSE {}]

seo == <<"s", "e", "o">>

RECURSIVE add_documents(_, _)
add_documents(st, order) ==
    IF order = <<>>
    THEN st
    ELSE add_documents(add_document(st.objs, st.index, Head(order)), Tail(order))

\* the index mapping after add_document of the documents of order, one after
\* the other, on an empty index
SequentialIndexMap(order) ==
    LET st == add_documents([objs |-> <<>>, index |-> <<>>], order)
    IN  [k \in DOMAIN st.index |-> st.objs[st.index[k]]]

\* the orders in which all documents can be added
Orders ==
    {order \in [1..MaxDocs -> DocIds] : Range(order) = DocIds}

----------------------------------------------------------------------------
(* Properties of the index under sequential use *)

\* C1: when get_documents(T) returns after add_document(D) has completed and
\* T is one of the keywords extracted from D's content, the set returned
\* contains D's id, whatever was looked up before the add.
C1_LookupAfterAddContainsDoc ==
    (ret.op = "get_documents" /\ ret.kind = "set") =>
        \A d \in added :
            ret.keyword.str \in extract_keywords(d) => d \in objs[ret.obj]

\* C3: the cache holds no entry that was computed before the add_document of
\* a document whose content contains the entry's (lowercased) keyword.
C3_NoCacheEntryOlderThanRelevantAdd ==
    \A q \in DOMAIN cache :
        \A d \in added :
            lower(q.str) \in extract_keywords(d) => d \in stamp[q]

\* C6: add_document of a document that was added before (its content
\* unchanged) leaves the index mapping and the result of every get_documents
\* as they were after the first add.
C6_AddTwiceSameAsOnce ==
    [][(ret'.op = "add_document" /\ ret'.repeat) =>
          /\ IndexMap' = IndexMap
          /\ \A k \in Keywords : LookupResult(k)' = LookupResult(k)]_vars

C6_Witness ==
    /\ ret.op = "add_document"
    /\ ret.repeat
    /\ seo \in extract_keywords(ret.doc)
    /\ seo \in DOMAIN index
    /\ Cardinality(objs[index[seo]]) > 1
    /\ Str(seo) \in DOMAIN cache

\* C7: get_documents("") returns the empty set, in every reachable state and
\* on every call made, hit or miss.
C7_EmptyKeywordReturnsEmptySet ==
    /\ LookupResult(Str(<<>>)) = [kind |-> "set", value |-> {}]
    /\ (ret.op = "get_documents" /\ ret.keyword = Str(<<>>)) =>
           (ret.kind = "set" /\ objs[ret.obj] = {})

C7_Witness ==
    /\ ret.op = "get_documents"
    /\ ret.keyword = Str(<<>>)
    /\ ret.hit
    /\ objs[ret.obj] = {}
    /\ Cardinality(added) > 1
    /\ DOMAIN index # {}

\* C9: two query strings that are equal after lowercasing get the same set
\* of document ids from get_documents.
C9_CaseInsensitiveLookup ==
    \A k1, k2 \in Keywords \ {None} :
        lower(k1.str) = lower(k2.str) => LookupResult(k1) = LookupResult(k2)

\* C10: get_documents(None) raises instead of returning a set, and leaves the
\* cache, the index and the result of every later lookup as they were.
C10_NoneKeywordRaisesAndLeavesState ==
    [][(ret'.op = "get_documents" /\ ret'.keyword = None) =>
          /\ ret'.kind = "raise"
          /\ cache' = cache
          /\ index' = index
          /\ objs' = objs
          /\ \A k \in Keywords : LookupResult(k)' = LookupResult(k)]_vars

C10_Witness ==
    /\ ret.op = "get_documents"
    /\ ret.keyword = None
    /\ ret.kind = "raise"
    /\ None \notin DOMAIN cache
    /\ DOMAIN cache # {}
    /\ DOMAIN index # {}

\* C8: a caller that adds ids to, or removes ids from, a set get_documents
\* returned changes neither the index mapping nor the result of any later
\* get_documents.
C8_CallerMutationLeavesIndex ==
    [][ret'.op = "caller_mutation" =>
          /\ IndexMap' = IndexMap
          /\ \A k \in Keywords : LookupResult(k)' = LookupResult(k)]_vars

----------------------------------------------------------------------------
(* Properties of concurrent ingestion *)

\* C2: when every worker thread has returned from add_document, the index
\* is, as a mapping keyword -> set of ids, the one the same adds produce when
\* run one after the other, in whatever order.
C2_ConcurrentAddsEqualSequential ==
    (\A t \in Threads : pc[t] = "done") =>
        \A order \in Orders : IndexMap = SequentialIndexMap(order)

----------------------------------------------------------------------------
(* Properties of the ranking queue *)

\* C4: every extract_max on a non-empty queue returns the queued pair with
\* the highest score, and the smallest doc_id among those; two extract_max
\* calls with no insert between them return pairs in non-increasing score
\* order, ascending doc_id on equal scores.
C4_ExtractMaxReturnsBest ==
    [][(pqret'.op = "extract_max" /\ heap # <<>> /\ heap' # heap) =>
          /\ pqret'.kind = "pair"
          /\ pqret'.pair \in Queued
          /\ \A q \in Queued : Before(pqret'.pair, q)
          /\ (pqret.op = "extract_max" /\ pqret.kind = "pair") =>
                 Before(pqret.pair, pqret'.pair)]_vars

C4_Witness ==
    /\ pqret.op = "extract_max"
    /\ pqret.kind = "pair"
    /\ BagCardinality(extracted) = 2
    /\ Len(heap) = 1
    /\ \E p \in Queued : p[2] = pqret.pair[2] /\ p[1] > pqret.pair[1]

\* C5: extract_max on an empty queue returns None, which is no (doc_id,
\* score) pair, and leaves the queue empty; is_empty() holds exactly when as
\* many pairs have been returned by extract_max as have been inserted.
C5_EmptyQueueSignalsEmptiness ==
    /\ is_empty(heap) <=> BagCardinality(inserted) = BagCardinality(extracted)
    /\ is_empty(heap) =>
           /\ extract_max(heap).kind = "none"
           /\ extract_max(heap).heap = <<>>
    /\ (pqret.op = "extract_max" /\ pqret.kind = "pair") =>
           BagIn(pqret.pair, inserted)
    /\ (pqret.op = "extract_max" /\ pqret.kind = "none") =>
           /\ is_empty(heap)
           /\ BagCardinality(inserted) = BagCardinality(extracted)

C5_Witness ==
    /\ pqret.op = "extract_max"
    /\ pqret.kind = "none"
    /\ is_empty(heap)
    /\ BagCardinality(extracted) = 2

----------------------------------------------------------------------------
(* Properties of documents whose content cannot be read *)

\* the documents of S in some order
OrderOf(S) == CHOOSE order \in [1..Cardinality(S) -> S] : Range(order) = S

\* the added documents whose file could be read
Readable == {d \in added : files[d] # None}

\* C11: add_document of a document whose content cannot be read returns
\* normally and leaves index and cache as they were; after any sequence of
\* adds the index is the one the readable documents alone produce.
C11_UnreadableDocumentIsSkipped ==
    [][ret'.op = "add_document" =>
          /\ ret'.kind = "none"
          /\ files[ret'.doc] = None =>
                (index' = index /\ objs' = objs /\ cache' = cache)
          /\ IndexMap' = SequentialIndexMap(OrderOf(Readable'))]_vars

C11_Witness ==
    /\ ret.op = "add_document"
    /\ files[ret.doc] = None
    /\ Readable # {}
    /\ DOMAIN index # {}
    /\ DOMAIN cache # {}

----------------------------------------------------------------------------
(* Properties of lookups that run while documents are added *)

\* no call is running
Quiescent == lpc = "idle" /\ InProgress = {}

\* C14: once a get_documents(K) and an add_document that overlapped it (of a
\* document whose keywords contain lower(K)) have both completed, every
\* later get_documents(K) returns a set containing that document's id.
C14_OverlappingAddVisibleAfterLookup ==
    Quiescent =>
        \A k \in DOMAIN cache :
            \A d \in conc[k] \cap added :
                lower(k.str) \in extract_keywords(d) =>
                    d \in LookupResult(k).value

----------------------------------------------------------------------------
(* Soundness of the index *)

\* the documents whose add_document has completed or is running
Ingested == added \cup InProgress

\* no document whose add_document has started contains lower(q)
Unindexed(q) == \A d \in Ingested : lower(q.str) \notin extract_keywords(d)

\* C12: in every state, whatever the interleaving of the statements of the
\* add_document and get_documents calls so far, every id stored under a
\* keyword belongs to a document whose add_document has started and whose
\* extracted keywords contain that keyword; get_documents of a keyword that
\* no such document contains returns the empty set, both the call that has
\* just returned and a call made now.
C12_IndexIsSound ==
    /\ \A k \in DOMAIN index :
           \A d \in objs[index[k]] : d \in Ingested /\ k \in extract_keywords(d)
    /\ \A q \in (Keywords \cup InterKeywords) \ {None} :
           Unindexed(q) => LookupResult(q).value = {}
    /\ (ret.op = "get_documents" /\ ret.kind = "set" /\ Unindexed(ret.keyword))
           => objs[ret.obj] = {}

\* a get_documents that ran while an add_document was running has returned
\* for a keyword no started document contains; an add_document is running
\* now and the index holds the shared keyword with an id
C12_Witness ==
    /\ ret.op = "get_documents"
    /\ ret.kind = "set"
    /\ Unindexed(ret.keyword)
    /\ ret.keyword \in DOMAIN conc
    /\ conc[ret.keyword] # {}
    /\ InProgress # {}
    /\ \E k \in DOMAIN index : objs[index[k]] # {}

----------------------------------------------------------------------------
(* Properties of keyword extraction *)

\* str.isalnum() of one character
is_alnum_char(c) ==
    \/ \E i \in 1..Len(UpperChars) : UpperChars[i] = c \/ LowerChars[i] = c
    \/ c \in DigitChars

\* C15: every keyword extracted is non-empty, lowercase and made of
\* alphanumeric characters only; an empty or unreadable content gives the
\* empty set.
C15_KeywordsAreCleanTokens ==
    \A t \in DOMAIN pc :
        pc[t] = "for" =>
            /\ \A w \in todo[t] :
                   /\ w # <<>>
                   /\ lower(w) = w
                   /\ \A i \in 1..Len(w) : is_alnum_char(w[i])
            /\ files[t] \in {None, Str(<<>>)} => todo[t] = {}

----------------------------------------------------------------------------
(* The cache of get_documents *)

\* C16: a get_documents(K) that returns a set is a cache hit exactly when an
\* earlier get_documents with the identical string K returned a set (stamp
\* records those strings); the cache holds exactly those strings, so another
\* spelling never hits; a miss reads the index key lower(K): it returns the
\* set object of that key, or an empty set when the key is absent.
C16_CacheKeyedByRawString ==
    [][(ret'.op = "get_documents" /\ ret'.kind = "set") =>
          LET K == ret'.keyword
              key == lower(K.str)
          IN  /\ ret'.hit <=> K \in DOMAIN stamp
              /\ DOMAIN cache' = DOMAIN stamp'
              /\ ~ret'.hit =>
                    /\ key \in DOMAIN index => ret'.obj = index[key]
                    /\ key \notin DOMAIN index => objs'[ret'.obj] = {}]_vars

\* "SEO" has just missed although "seo" was looked up before and is cached;
\* it read the index key "seo"
C16_Witness ==
    /\ ret.op = "get_documents"
    /\ ret.keyword = Str(<<"S", "E", "O">>)
    /\ ~ret.hit
    /\ Str(seo) \in DOMAIN cache
    /\ seo \in DOMAIN index
    /\ ret.obj = index[seo]
    /\ objs[ret.obj] # {}

\* the index key of keyword q was present when the cache entry of q was made:
\* some document added by then has the key among its keywords
PresentWhenCached(q) ==
    \E d \in stamp[q] : lower(q.str) \in extract_keywords(d)

\* C17: under sequential add_document and get_documents calls, a cache entry
\* made while its index key was present is the index's set object of that key
\* in every later state, so its contents equal the index's current set; an
\* entry whose contents differ from the index's current set was made while
\* the key was absent.
C17_CachedWhilePresentAliasesIndex ==
    \A q \in DOMAIN cache :
        LET key == lower(q.str) IN
        /\ PresentWhenCached(q) =>
              /\ key \in DOMAIN index
              /\ cache[q] = index[key]
              /\ objs[cache[q]] = IndexMap[key]
        /\ (key \in DOMAIN index /\ objs[cache[q]] # IndexMap[key]) =>
              ~PresentWhenCached(q)

\* an entry made while its key was present, and a document with that keyword
\* added since: the cached set holds the later document
C17_Witness ==
    \E q \in DOMAIN cache :
        /\ PresentWhenCached(q)
        /\ \E d \in added \ stamp[q] : d \in objs[cache[q]]

----------------------------------------------------------------------------
(* The contents and the shape of the ranking queue *)

\* the pairs in the queue, each as often as the list holds its entry
QueuedBag ==
    [p \in Queued |->
        Cardinality({i \in 1..Len(heap) : <<heap[i][2], -heap[i][1]>> = p})]

\* C18: the pairs returned by extract_max so far together with the pairs
\* still queued are the pairs inserted so far, each as often as it was
\* inserted; a pair returned has the id and the score it was inserted with.
C18_QueueConservesContents ==
    /\ extracted (+) QueuedBag = inserted
    /\ (pqret.op = "extract_max" /\ pqret.kind = "pair") =>
           /\ BagIn(pqret.pair, inserted)
           /\ CopiesIn(pqret.pair, extracted) <= CopiesIn(pqret.pair, inserted)

\* a pair with a non-zero score inserted twice and returned twice, another
\* pair still queued
C18_Witness ==
    /\ pqret.op = "extract_max"
    /\ pqret.kind = "pair"
    /\ pqret.pair[2] # 0
    /\ CopiesIn(pqret.pair, inserted) = 2
    /\ CopiesIn(pqret.pair, extracted) = 2
    /\ heap # <<>>

\* C20: the list holds one entry (-score, doc_id) for each queued pair, as
\* many entries as inserts less successful extractions; every entry is no
\* larger than its children at positions 2i+1 and 2i+2; the entry at
\* position 0 is the pair of highest score, of smallest id among those.
C20_HeapInvariant ==
    /\ Len(heap) = BagCardinality(inserted) - BagCardinality(extracted)
    /\ \A i \in 1..Len(heap) :
           /\ heap[i][2] \in DocIds
           /\ -heap[i][1] \in Scores
           /\ CopiesIn(<<heap[i][2], -heap[i][1]>>, inserted) > 0
    /\ \A pos \in 0..(Len(heap) - 1) :
           \A childpos \in {2 * pos + 1, 2 * pos + 2} :
               childpos < Len(heap) =>
                   ~tuple_lt(heap[childpos + 1], heap[pos + 1])
    /\ heap # <<>> =>
           \A q \in Queued : Before(<<heap[1][2], -heap[1][1]>>, q)

\* three entries left by an extraction that moved the last entry to the
\* front and sifted it: the front entry is smaller than both its children
C20_Witness ==
    /\ Len(heap) = 3
    /\ pqret.op = "extract_max"
    /\ pqret.kind = "pair"
    /\ tuple_lt(heap[1], heap[2])
    /\ tuple_lt(heap[1], heap[3])

----------------------------------------------------------------------------
(* What changes the index *)

\* C19: a get_documents call, hit or miss or raising, leaves the index as it
\* is: no key is created for an absent keyword and no set of the index
\* changes; a sequential add_document only grows the index: every key stays
\* and every key's set keeps its ids.
C19_LookupsLeaveIndexAddsGrowIt ==
    [][/\ ret'.op = "get_documents" =>
              /\ index' = index
              /\ IndexMap' = IndexMap
       /\ ret'.op = "add_document" =>
              \A k \in DOMAIN index :
                  /\ k \in DOMAIN index'
                  /\ IndexMap[k] \subseteq IndexMap'[k]]_vars

\* a keyword absent from a non-empty index has just been looked up and
\* cached, and the index has no key for it
C19_Witness ==
    /\ ret.op = "get_documents"
    /\ ret.kind = "set"
    /\ ~ret.hit
    /\ lower(ret.keyword.str) \notin DOMAIN index
    /\ ret.keyword \in DOMAIN cache
    /\ DOMAIN index # {}

====
